---- MODULE Spec2Model ----
(***************************************************************************)
(* A model of mmsg-rs (src/src/lib.rs): the MMsgHdr envelope, the          *)
(* recvmmsg/sendmmsg wrappers on UdpSocket, cvt and max_len, together with *)
(* the part of the operating system the wrappers talk to (a datagram       *)
(* socket's receive queue and the recvmmsg(2)/sendmmsg(2) calls), and the  *)
(* test tests::it_works as a two-thread program.                           *)
(*                                                                         *)
(* Machine integers keep their width.  TLC's integers are 32-bit, so a     *)
(* 64-bit word (usize, u64, i64 on a 64-bit target) is a tuple of four     *)
(* 16-bit limbs, most significant first; u32 and i32 values are stored in  *)
(* the two low limbs.  Small quantities that never leave the range of an   *)
(* i32 (queue lengths, datagram sizes, the syscall's return value) are     *)
(* plain integers.  The target is a 64-bit one (usize and ssize_t are 64    *)
(* bits wide, c_int is 32).                                                *)
(***************************************************************************)
EXTENDS Integers, Sequences, FiniteSets, TLC

VARIABLES
    target_os,   \* cfg!(target_os): "linux" or "macos", fixed at build time
    net,         \* the sockets: [bound, peer, rxq (sizes of the queued datagrams), bufcap]
    pc,          \* per thread: where it is inside a wrapper call
    hdrs,        \* per thread: the leading envelopes of its msgs array
    built,       \* per thread: the (iovec, flags) each envelope was built from
    frame,       \* per thread: the running call's arguments and locals
    os_ret,      \* per thread: what the last syscall returned (-1 or a count)
    errno,       \* per thread: the thread's errno
    result,      \* per thread: the io::Result the last call returned
    nsys,        \* per thread: syscalls issued by the current call
    touched,     \* per thread: envelopes the last syscall accessed (indices 0..touched-1)
    delivered,   \* per thread: sizes of the datagrams the last recvmmsg(2) handed out
    step,        \* per thread: position in the test program (tests::it_works)
    token        \* the sender thread's park token

vars == <<target_os, net, pc, hdrs, built, frame, os_ret, errno, result,
          nsys, touched, delivered, step, token>>

----------------------------------------------------------------------------
(* Bounds of the model. *)

\* Datagrams a socket's receive buffer holds in the harness; also the number
\* of leading envelopes of an array that the model keeps explicitly (a
\* syscall can never transfer more than the buffer holds).
MaxQueue == 2
\* Syscalls counted per call (a correct call issues one).
MaxSys == 2

----------------------------------------------------------------------------
(* 64-bit words as four 16-bit limbs. *)

Limb == 2^16

\* n in 0 .. 2^31-1 as a word
FromNat(n) == <<0, 0, n \div Limb, n % Limb>>

\* a word below 2^31 as an integer
ToNat(w) == w[3] * Limb + w[4]

NumLess(a, b) ==
    \E i \in 1..4 : a[i] < b[i] /\ \A j \in 1..(i-1) : a[j] = b[j]

NumLeq(a, b) == a = b \/ NumLess(a, b)

\* std::cmp::min on usize
cmp_min(a, b) == IF NumLeq(a, b) THEN a ELSE b

\* `x as u32` of a usize: the low 32 bits
AsU32(w) == <<0, 0, w[3], w[4]>>

\* `x as i64` of a u64: the same 64 bits, read as two's complement
AsI64(w) == w

\* sign of a two's complement 64-bit word
I64Negative(w) == w[1] >= 2^15

\* `n as usize` of an i32: sign extension
I32AsUsize(n) ==
    IF n >= 0 THEN FromNat(n)
    ELSE <<Limb - 1, Limb - 1, Limb + (n \div Limb), n % Limb>>

\* <ssize_t>::max_value() as usize, 2^63 - 1
SSIZE_MAX == <<2^15 - 1, Limb - 1, Limb - 1, Limb - 1>>

\* <c_int>::max_value() as usize, 2^31 - 1
C_INT_MAX == <<0, 0, 2^15 - 1, Limb - 1>>

\* i64::MAX as a u64
I64_MAX == <<2^15 - 1, Limb - 1, Limb - 1, Limb - 1>>

NumPred(w) ==
    IF w[4] > 0 THEN <<w[1], w[2], w[3], w[4] - 1>>
    ELSE IF w[3] > 0 THEN <<w[1], w[2], w[3] - 1, Limb - 1>>
    ELSE IF w[2] > 0 THEN <<w[1], w[2] - 1, Limb - 1, Limb - 1>>
    ELSE <<w[1] - 1, Limb - 1, Limb - 1, Limb - 1>>

----------------------------------------------------------------------------
(* MsgFlags *)

MSG_DONTWAIT == 64
MSG_CMSG_CLOEXEC == 1073741824
MSG_ERRQUEUE == 8192
MSG_PEEK == 2
MSG_TRUNC == 32
MSG_WAITFORONE == 65536

AllFlags == {"DONTWAIT", "CMSG_CLOEXEC", "ERRQUEUE", "PEEK", "TRUNC", "WAITFORONE"}

FlagBit(name) ==
    CASE name = "DONTWAIT" -> MSG_DONTWAIT
      [] name = "CMSG_CLOEXEC" -> MSG_CMSG_CLOEXEC
      [] name = "ERRQUEUE" -> MSG_ERRQUEUE
      [] name = "PEEK" -> MSG_PEEK
      [] name = "TRUNC" -> MSG_TRUNC
      [] name = "WAITFORONE" -> MSG_WAITFORONE

RECURSIVE SumBits(_)
SumBits(S) ==
    IF S = {} THEN 0
    ELSE LET x == CHOOSE y \in S : TRUE IN FlagBit(x) + SumBits(S \ {x})

\* MsgFlags::bits
bits(flags) == SumBits(flags)

\* MsgFlags::default
MsgFlags_default == {}

\* the kernel's test of one flag bit in a c_int
HasBit(b, flag) == (b \div flag) % 2 = 1

----------------------------------------------------------------------------
(* MMsgHdr *)

NULL == "null"

\* MMsgHdr::new with the flags left out of the envelope
MMsgHdr_new_noflags(iovec, flags) ==
    [ msg_control    |-> NULL,
      msg_controllen |-> 0,
      msg_flags      |-> 0,
      msg_iov        |-> iovec,
      msg_iovlen     |-> Len(iovec),
      msg_name       |-> NULL,
      msg_namelen    |-> 0,
      msg_len        |-> 0 ]

MMsgHdr_new(iovec, flags) ==
    [ msg_control    |-> NULL,
      msg_controllen |-> 0,
      msg_flags      |-> bits(flags),
      msg_iov        |-> iovec,
      msg_iovlen     |-> Len(iovec),
      msg_name       |-> NULL,
      msg_namelen    |-> 0,
      msg_len        |-> 0 ]

\* msg_len reading the neighbouring length field
msg_len_iovlen(h) == h.msg_iovlen

msg_len(h) == h.msg_len

RECURSIVE SumSeq(_)
SumSeq(s) == IF s = <<>> THEN 0 ELSE Head(s) + SumSeq(Tail(s))

\* bytes the kernel can scatter into (or gather from) an envelope: the
\* first msg_iovlen entries of msg_iov
Capacity(h) == SumSeq(SubSeq(h.msg_iov, 1, h.msg_iovlen))

----------------------------------------------------------------------------
(* max_len and cvt *)

max_len ==
    IF target_os = "macos" THEN NumPred(C_INT_MAX) ELSE SSIZE_MAX

Zero == FromNat(0)

Ok(v) == [kind |-> "ok", val |-> v, err |-> ""]
Err(e) == [kind |-> "err", val |-> 0, err |-> e]

\* io::Error::last_os_error(): the calling thread's errno
last_os_error(t) == errno[t]

\* cvt taking every non-positive return for a failure
cvt_nonpositive(t, n) == IF n <= 0 THEN Err(last_os_error(t)) ELSE Ok(n)

\* cvt, for the thread t whose errno last_os_error reads
cvt(t, n) == IF n = -1 THEN Err(last_os_error(t)) ELSE Ok(n)

\* the io::Result<usize> a wrapper hands back: `cvt(..)?` then `Ok(n as usize)`
NoResult == [kind |-> "none", val |-> Zero, err |-> ""]
ResultOk(w) == [kind |-> "ok", val |-> w, err |-> ""]
ResultErr(e) == [kind |-> "err", val |-> Zero, err |-> e]

----------------------------------------------------------------------------
(* Arguments of a call *)

\* Option<time::Duration>
None == [some |-> FALSE, secs |-> Zero, nanos |-> 0]
Some(secs, nanos) == [some |-> TRUE, secs |-> secs, nanos |-> nanos]

\* *mut timespec
NullTimespec == [null |-> TRUE, tv_sec |-> Zero, tv_nsec |-> 0]

\* timeout.map(|d| timespec { tv_sec: d.as_secs() as i64,
\*                            tv_nsec: d.subsec_nanos() as i64 }) and tptr
recvmmsg_tptr(timeout) ==
    IF timeout.some
    THEN [null |-> FALSE, tv_sec |-> AsI64(timeout.secs), tv_nsec |-> timeout.nanos]
    ELSE NullTimespec

\* recvmmsg's len without the minimum with msgvec.len()
recvmmsg_len_nomin(msgvec_len) == AsU32(max_len)

\* recvmmsg's len with cmp::max for cmp::min
recvmmsg_len_max(msgvec_len) ==
    AsU32(IF NumLeq(msgvec_len, max_len) THEN max_len ELSE msgvec_len)

\* sendmmsg's len without the minimum with msgvec.len()
sendmmsg_len_nomin(msgvec_len) == AsU32(max_len)

\* let len = cmp::min(msgvec.len(), max_len()) as u32;   (recvmmsg)
recvmmsg_len(msgvec_len) == AsU32(cmp_min(msgvec_len, max_len))

\* let len = cmp::min(msgvec.len(), max_len()) as u32;   (sendmmsg)
sendmmsg_len(msgvec_len) == AsU32(cmp_min(msgvec_len, max_len))

NoFrame ==
    [ op |-> "none", msgvec_len |-> Zero, len |-> Zero, flags |-> 0,
      timeout |-> None, tptr |-> NullTimespec ]

----------------------------------------------------------------------------
(* The operating system: recvmmsg(2) and sendmmsg(2) on a datagram socket *)

Min(a, b) == IF a <= b THEN a ELSE b

\* number of messages a syscall may take, given vlen (a u32) and what is at hand
Upto(vlen, avail) == IF NumLess(FromNat(avail), vlen) THEN avail ELSE ToNat(vlen)

\* the kernel's timespec64_valid
TimespecValid(ts) ==
    /\ ~I64Negative(ts.tv_sec)
    /\ ts.tv_nsec >= 0
    /\ ts.tv_nsec < 1000000000

\* What recvmmsg(2) may return for the arguments in frame f on a socket whose
\* receive queue is q.  An invalid timeout is refused with EINVAL; vlen = 0
\* returns 0; an empty queue gives EAGAIN under MSG_DONTWAIT and otherwise
\* blocks (no outcome) unless a signal arrives (EINTR).  With data queued the
\* call takes everything at hand up to vlen under MSG_DONTWAIT or
\* MSG_WAITFORONE, and otherwise returns after any number of datagrams from 1
\* on (the timeout expired or a signal arrived while it waited for more).
RecvOutcomes(f, q) ==
    IF ~f.tptr.null /\ ~TimespecValid(f.tptr)
    THEN {[ret |-> -1, err |-> "EINVAL"]}
    ELSE IF f.len = Zero
    THEN {[ret |-> 0, err |-> ""]}
    ELSE IF q = <<>>
    THEN IF HasBit(f.flags, MSG_DONTWAIT)
         THEN {[ret |-> -1, err |-> "EAGAIN"]}
         ELSE {[ret |-> -1, err |-> "EINTR"]}
    ELSE IF HasBit(f.flags, MSG_DONTWAIT) \/ HasBit(f.flags, MSG_WAITFORONE)
    THEN {[ret |-> Upto(f.len, Len(q)), err |-> ""]}
    ELSE {[ret |-> k, err |-> ""] : k \in 1..Upto(f.len, Len(q))}

\* msg_len of an envelope that received a datagram of `size` bytes: the bytes
\* copied, or under MSG_TRUNC the real length of the datagram (recv(2))
RecvLen(h, size, flagbits) ==
    IF HasBit(flagbits, MSG_TRUNC) THEN size ELSE Min(size, Capacity(h))

\* msg_flags the kernel stores in the envelope on receipt
RecvFlags(h, size, flagbits) ==
    (IF size > Capacity(h) THEN MSG_TRUNC ELSE 0)
    + (IF HasBit(flagbits, MSG_CMSG_CLOEXEC) THEN MSG_CMSG_CLOEXEC ELSE 0)

\* libc::recvmmsg(self.as_raw_fd(), msgvec.as_mut_ptr(), len, flags.bits(), tptr)
recvmmsg_syscall(t) ==
    /\ pc[t] = "recv_syscall"
    /\ nsys[t] < MaxSys
    /\ \E o \in RecvOutcomes(frame[t], net[t].rxq) :
         LET q == net[t].rxq
             k == IF o.ret = -1 THEN 0 ELSE o.ret
         IN  /\ os_ret' = [os_ret EXCEPT ![t] = o.ret]
             /\ errno' = [errno EXCEPT ![t] = IF o.ret = -1 THEN o.err ELSE @]
             /\ delivered' = [delivered EXCEPT ![t] = SubSeq(q, 1, k)]
             /\ net' = [net EXCEPT ![t].rxq = SubSeq(q, k + 1, Len(q))]
             /\ touched' = [touched EXCEPT ![t] = k]
             /\ hdrs' = [hdrs EXCEPT ![t] =
                    [i \in 1..Len(hdrs[t]) |->
                        IF i <= k
                        THEN [hdrs[t][i] EXCEPT
                                !.msg_len = RecvLen(hdrs[t][i], q[i], frame[t].flags),
                                !.msg_flags = RecvFlags(hdrs[t][i], q[i], frame[t].flags)]
                        ELSE hdrs[t][i]]]
    /\ nsys' = [nsys EXCEPT ![t] = @ + 1]
    /\ pc' = [pc EXCEPT ![t] = "recv_return"]
    /\ UNCHANGED <<target_os, built, frame, result, step, token>>

\* the kernel caps sendmmsg's vlen at UIO_MAXIOV (sendmmsg(2))
UIO_MAXIOV == 2^10

\* the largest UDP payload over IPv4: 65535 - 8 - 20
UDP_MAX_PAYLOAD == 2^16 - 29

\* Envelope i (from 1) of thread t's array.  The array is hdrs[t] followed,
\* when it is longer than hdrs[t], by envelopes built from an empty buffer
\* view.
EnvAt(t, i) == IF i <= Len(hdrs[t]) THEN hdrs[t][i] ELSE MMsgHdr_new(<<>>, MsgFlags_default)

\* bytes gathered from envelope i of thread t's array
SendSize(t, i) == Capacity(EnvAt(t, i))

\* What sendmmsg(2) returns: vlen = 0 returns 0; otherwise it sends the
\* messages in order, up to vlen and UIO_MAXIOV, and stops at the first one
\* too large for a datagram: EMSGSIZE if that is the first message, and the
\* number sent before it if not.
SendOutcome(t, f) ==
    IF f.len = Zero
    THEN [ret |-> 0, err |-> ""]
    ELSE LET n == Upto(f.len, UIO_MAXIOV)
             bad == {i \in 1..Min(n, Len(hdrs[t])) : SendSize(t, i) > UDP_MAX_PAYLOAD}
         IN  IF bad = {} THEN [ret |-> n, err |-> ""]
             ELSE IF 1 \in bad THEN [ret |-> -1, err |-> "EMSGSIZE"]
             ELSE [ret |-> (CHOOSE i \in bad : \A j \in bad : i <= j) - 1, err |-> ""]

\* the receive queue of socket d after the first k messages of thread t's
\* array are sent to it: a datagram is queued while d is a bound socket with
\* room, and is lost otherwise
Arrive(d, t, k) ==
    IF net[d].bound
    THEN net[d].rxq \o [i \in 1..Min(k, net[d].bufcap - Len(net[d].rxq)) |-> SendSize(t, i)]
    ELSE net[d].rxq

\* libc::sendmmsg(self.as_raw_fd(), msgvec.as_mut_ptr(), len, 0)
sendmmsg_syscall(t) ==
    /\ pc[t] = "send_syscall"
    /\ nsys[t] < MaxSys
    /\ LET o == SendOutcome(t, frame[t])
           k == IF o.ret = -1 THEN 0 ELSE o.ret
           d == net[t].peer
       IN  /\ os_ret' = [os_ret EXCEPT ![t] = o.ret]
           /\ errno' = [errno EXCEPT ![t] = IF o.ret = -1 THEN o.err ELSE @]
           /\ net' = [net EXCEPT ![d].rxq = Arrive(d, t, k)]
           /\ touched' = [touched EXCEPT ![t] = k]
           /\ hdrs' = [hdrs EXCEPT ![t] =
                  [i \in 1..Len(hdrs[t]) |->
                      IF i <= k THEN [hdrs[t][i] EXCEPT !.msg_len = SendSize(t, i)]
                      ELSE hdrs[t][i]]]
    /\ nsys' = [nsys EXCEPT ![t] = @ + 1]
    /\ pc' = [pc EXCEPT ![t] = "send_return"]
    /\ UNCHANGED <<target_os, built, frame, result, delivered, step, token>>

----------------------------------------------------------------------------
(* impl MMsg for net::UdpSocket.  A call is split where it enters the       *)
(* kernel: the code before the syscall, the syscall, the code after it.     *)
(* The caller's own step (step') is left to the caller.                     *)

recvmmsg_call(t, msgvec_len, flags, timeout) ==
    /\ pc[t] = "ready"
    /\ frame' = [frame EXCEPT ![t] =
            [ op |-> "recvmmsg", msgvec_len |-> msgvec_len,
              len |-> recvmmsg_len(msgvec_len), flags |-> bits(flags),
              timeout |-> timeout, tptr |-> recvmmsg_tptr(timeout) ]]
    /\ pc' = [pc EXCEPT ![t] = "recv_syscall"]
    /\ UNCHANGED <<target_os, net, hdrs, built, os_ret, errno, result, nsys,
                   touched, delivered, token>>

\* recvmmsg entering the kernel again when a signal interrupted the syscall
recvmmsg_return_retry(t) ==
    /\ pc[t] = "recv_return"
    /\ LET n == cvt(t, os_ret[t])
       IN  IF n.kind = "err" /\ n.err = "EINTR"
           THEN /\ pc' = [pc EXCEPT ![t] = "recv_syscall"]
                /\ UNCHANGED result
           ELSE /\ result' = [result EXCEPT ![t] =
                        IF n.kind = "err" THEN ResultErr(n.err)
                        ELSE ResultOk(I32AsUsize(n.val))]
                /\ pc' = [pc EXCEPT ![t] = "returned"]
    /\ UNCHANGED <<target_os, net, hdrs, built, frame, os_ret, errno, nsys,
                   touched, delivered, step, token>>

recvmmsg_return(t) ==
    /\ pc[t] = "recv_return"
    /\ LET n == cvt(t, os_ret[t])
       IN  result' = [result EXCEPT ![t] =
                IF n.kind = "err" THEN ResultErr(n.err) ELSE ResultOk(I32AsUsize(n.val))]
    /\ pc' = [pc EXCEPT ![t] = "returned"]
    /\ UNCHANGED <<target_os, net, hdrs, built, frame, os_ret, errno, nsys,
                   touched, delivered, step, token>>

sendmmsg_call(t, msgvec_len) ==
    /\ pc[t] = "ready"
    /\ frame' = [frame EXCEPT ![t] =
            [ op |-> "sendmmsg", msgvec_len |-> msgvec_len,
              len |-> sendmmsg_len(msgvec_len), flags |-> 0,
              timeout |-> None, tptr |-> NullTimespec ]]
    /\ pc' = [pc EXCEPT ![t] = "send_syscall"]
    /\ UNCHANGED <<target_os, net, hdrs, built, os_ret, errno, result, nsys,
                   touched, delivered, token>>

sendmmsg_return(t) ==
    /\ pc[t] = "send_return"
    /\ LET n == cvt(t, os_ret[t])
       IN  result' = [result EXCEPT ![t] =
                IF n.kind = "err" THEN ResultErr(n.err) ELSE ResultOk(I32AsUsize(n.val))]
    /\ pc' = [pc EXCEPT ![t] = "returned"]
    /\ UNCHANGED <<target_os, net, hdrs, built, frame, os_ret, errno, nsys,
                   touched, delivered, step, token>>

----------------------------------------------------------------------------
(* A caller of the library: one thread with a socket bound to a loopback    *)
(* address and connected to that same address, so that what it sends it     *)
(* later receives.  The caller builds envelopes, makes one batch call on    *)
(* them, and drops them and the result.                                     *)

\* buffer views: no buffer, one or two one-byte buffers, and one buffer too
\* large for a datagram
IovInputs == {<<>>, <<1>>, <<1, 1>>, <<UDP_MAX_PAYLOAD + 1>>}

\* flag sets given to MMsgHdr::new; a caller uses one for all its envelopes
FlagInputs == {MsgFlags_default, AllFlags}

\* flag sets given to recvmmsg.  MSG_PEEK and MSG_ERRQUEUE are not among
\* them: the receive queue below is read destructively and there is no error
\* queue.
CallFlagInputs ==
    {MsgFlags_default, {"TRUNC"}, {"DONTWAIT"}, {"DONTWAIT", "TRUNC"}, {"WAITFORONE"}}

\* timeouts given to recvmmsg: none, i64::MAX s + 999999999 ns, 2^63 s
TimeoutInputs ==
    {None, Some(I64_MAX, 999999999), Some(<<2^15, 0, 0, 0>>, 0)}

\* the longest slice of 64-byte envelopes: isize::MAX / size_of::<mmsghdr>(),
\* 2^57 - 1
MaxSlice == <<2^9 - 1, Limb - 1, Limb - 1, Limb - 1>>

\* lengths of arrays too long to keep whole: 2^31-2, 2^31-1, 2^32-1, 2^32,
\* 2^32+1 and the longest slice
LongLens ==
    { NumPred(C_INT_MAX), C_INT_MAX, <<0, 0, Limb - 1, Limb - 1>>,
      <<0, 1, 0, 0>>, <<0, 1, 0, 1>>, MaxSlice }

\* the lengths the array whose leading envelopes are hdrs[t] may have: as
\* many as were built, or, when MaxQueue were built from an empty buffer
\* view last, a long array that goes on with such envelopes
SliceLens(t) ==
    {FromNat(Len(hdrs[t]))} \cup
    (IF Len(hdrs[t]) = MaxQueue /\ built[t][MaxQueue] = [iovec |-> <<>>, flags |-> MsgFlags_default]
     THEN LongLens ELSE {})

Construct(t) ==
    /\ step[t] = "caller"
    /\ pc[t] = "ready"
    /\ Len(hdrs[t]) < MaxQueue
    /\ \E iovec \in IovInputs, flags \in FlagInputs :
         /\ built[t] # <<>> => flags = built[t][1].flags
         /\ hdrs' = [hdrs EXCEPT ![t] = Append(@, MMsgHdr_new(iovec, flags))]
         /\ built' = [built EXCEPT ![t] = Append(@, [iovec |-> iovec, flags |-> flags])]
    /\ UNCHANGED <<target_os, net, pc, frame, os_ret, errno, result, nsys,
                   touched, delivered, step, token>>

CallRecv(t) ==
    /\ step[t] = "caller"
    /\ \E n \in SliceLens(t), flags \in CallFlagInputs, timeout \in TimeoutInputs :
         recvmmsg_call(t, n, flags, timeout)
    /\ UNCHANGED step

CallSend(t) ==
    /\ step[t] = "caller"
    /\ \E n \in SliceLens(t) : sendmmsg_call(t, n)
    /\ UNCHANGED step

\* the caller is done with the result and the envelopes.  errno is cleared
\* with them: its old value is never read, last_os_error being called only
\* right after a syscall has set it.
Discard(t) ==
    /\ step[t] = "caller"
    /\ pc[t] = "returned"
    /\ pc' = [pc EXCEPT ![t] = "ready"]
    /\ hdrs' = [hdrs EXCEPT ![t] = <<>>]
    /\ built' = [built EXCEPT ![t] = <<>>]
    /\ frame' = [frame EXCEPT ![t] = NoFrame]
    /\ os_ret' = [os_ret EXCEPT ![t] = 0]
    /\ errno' = [errno EXCEPT ![t] = ""]
    /\ result' = [result EXCEPT ![t] = NoResult]
    /\ nsys' = [nsys EXCEPT ![t] = 0]
    /\ touched' = [touched EXCEPT ![t] = 0]
    /\ delivered' = [delivered EXCEPT ![t] = <<>>]
    /\ UNCHANGED <<target_os, net, step, token>>

Socket(bound, peer, bufcap) ==
    [bound |-> bound, peer |-> peer, rxq |-> <<>>, bufcap |-> bufcap]

InitThreads(T, s0) ==
    /\ pc = [t \in T |-> "ready"]
    /\ hdrs = [t \in T |-> <<>>]
    /\ built = [t \in T |-> <<>>]
    /\ frame = [t \in T |-> NoFrame]
    /\ os_ret = [t \in T |-> 0]
    /\ errno = [t \in T |-> ""]
    /\ result = [t \in T |-> NoResult]
    /\ nsys = [t \in T |-> 0]
    /\ touched = [t \in T |-> 0]
    /\ delivered = [t \in T |-> <<>>]
    /\ step = [t \in T |-> s0]
    /\ token = FALSE

Callers == {"main"}

Init ==
    /\ target_os \in {"linux", "macos"}
    /\ net = [s \in Callers |-> Socket(TRUE, s, MaxQueue)]
    /\ InitThreads(Callers, "caller")

Next ==
    \E t \in Callers :
        \/ Construct(t)
        \/ CallRecv(t)
        \/ recvmmsg_syscall(t)
        \/ recvmmsg_return(t)
        \/ CallSend(t)
        \/ sendmmsg_syscall(t)
        \/ sendmmsg_return(t)
        \/ Discard(t)

Spec == Init /\ [][Next]_vars

----------------------------------------------------------------------------
(* tests::it_works: the spawned sender thread and the test's own thread     *)
(* (the receiver), one action per statement that another thread can see.    *)

\* the three messages of each side
TestMsgs == 3
\* [b'A'; 500]
SenderBufLen == 500
\* [0u8; 1500]
ReceiverBufLen == 1500

TestThreads == {"sender", "receiver"}

Goto(t, s) == step' = [step EXCEPT ![t] = s]

TestMsgsOf(buflen) ==
    [i \in 1..TestMsgs |-> MMsgHdr_new(<<buflen>>, MsgFlags_default)]

TestBuiltOf(buflen) ==
    [i \in 1..TestMsgs |-> [iovec |-> <<buflen>>, flags |-> MsgFlags_default]]

\* UdpSocket::bind("127.0.0.1:0").unwrap()
sender_bind ==
    /\ step["sender"] = "bind"
    /\ net' = [net EXCEPT !["sender"].bound = TRUE]
    /\ Goto("sender", "connect")
    /\ UNCHANGED <<target_os, pc, hdrs, built, frame, os_ret, errno, result,
                   nsys, touched, delivered, token>>

\* so.connect("127.0.0.1:3456").unwrap()
sender_connect ==
    /\ step["sender"] = "connect"
    /\ net' = [net EXCEPT !["sender"].peer = "receiver"]
    /\ Goto("sender", "msgs")
    /\ UNCHANGED <<target_os, pc, hdrs, built, frame, os_ret, errno, result,
                   nsys, touched, delivered, token>>

\* let mut msgs = [MMsgHdr::new(&mut iov_a[..], MsgFlags::default()), ..]
sender_msgs ==
    /\ step["sender"] = "msgs"
    /\ hdrs' = [hdrs EXCEPT !["sender"] = TestMsgsOf(SenderBufLen)]
    /\ built' = [built EXCEPT !["sender"] = TestBuiltOf(SenderBufLen)]
    /\ Goto("sender", "park")
    /\ UNCHANGED <<target_os, net, pc, frame, os_ret, errno, result, nsys,
                   touched, delivered, token>>

\* thread::park() returns, taking the token
sender_park ==
    /\ step["sender"] = "park"
    /\ token
    /\ token' = FALSE
    /\ Goto("sender", "sendmmsg")
    /\ UNCHANGED <<target_os, net, pc, hdrs, built, frame, os_ret, errno,
                   result, nsys, touched, delivered>>

\* thread::park() returns spuriously, as std documents it may
sender_park_spurious ==
    /\ step["sender"] = "park"
    /\ Goto("sender", "sendmmsg")
    /\ UNCHANGED <<target_os, net, pc, hdrs, built, frame, os_ret, errno,
                   result, nsys, touched, delivered, token>>

\* so.sendmmsg(&mut msgs[..])
sender_sendmmsg ==
    /\ step["sender"] = "sendmmsg"
    /\ sendmmsg_call("sender", FromNat(Len(hdrs["sender"])))
    /\ Goto("sender", "unwrap")

\* .unwrap(), and the thread ends
sender_unwrap ==
    /\ step["sender"] = "unwrap"
    /\ pc["sender"] = "returned"
    /\ Goto("sender", IF result["sender"].kind = "ok" THEN "done" ELSE "panicked")
    /\ UNCHANGED <<target_os, net, pc, hdrs, built, frame, os_ret, errno,
                   result, nsys, touched, delivered, token>>

\* UdpSocket::bind("127.0.0.1:3456").unwrap()
receiver_bind ==
    /\ step["receiver"] = "bind"
    /\ net' = [net EXCEPT !["receiver"].bound = TRUE]
    /\ Goto("receiver", "unpark")
    /\ UNCHANGED <<target_os, pc, hdrs, built, frame, os_ret, errno, result,
                   nsys, touched, delivered, token>>

\* sender.thread().unpark()
receiver_unpark ==
    /\ step["receiver"] = "unpark"
    /\ token' = TRUE
    /\ Goto("receiver", "sleep")
    /\ UNCHANGED <<target_os, net, pc, hdrs, built, frame, os_ret, errno,
                   result, nsys, touched, delivered>>

\* thread::sleep(time::Duration::from_millis(200))
receiver_sleep ==
    /\ step["receiver"] = "sleep"
    /\ Goto("receiver", "msgs")
    /\ UNCHANGED <<target_os, net, pc, hdrs, built, frame, os_ret, errno,
                   result, nsys, touched, delivered, token>>

\* let mut msgs = [MMsgHdr::new(&mut iov_a[..], MsgFlags::default()), ..]
receiver_msgs ==
    /\ step["receiver"] = "msgs"
    /\ hdrs' = [hdrs EXCEPT !["receiver"] = TestMsgsOf(ReceiverBufLen)]
    /\ built' = [built EXCEPT !["receiver"] = TestBuiltOf(ReceiverBufLen)]
    /\ Goto("receiver", "recvmmsg")
    /\ UNCHANGED <<target_os, net, pc, frame, os_ret, errno, result, nsys,
                   touched, delivered, token>>

\* so.recvmmsg(&mut msgs[..], MsgFlags::DONTWAIT, None)
receiver_recvmmsg ==
    /\ step["receiver"] = "recvmmsg"
    /\ recvmmsg_call("receiver", FromNat(Len(hdrs["receiver"])), {"DONTWAIT"}, None)
    /\ Goto("receiver", "unwrap")

\* .unwrap()
receiver_unwrap ==
    /\ step["receiver"] = "unwrap"
    /\ pc["receiver"] = "returned"
    /\ Goto("receiver", IF result["receiver"].kind = "ok" THEN "assert_count" ELSE "panicked")
    /\ UNCHANGED <<target_os, net, pc, hdrs, built, frame, os_ret, errno,
                   result, nsys, touched, delivered, token>>

\* assert_eq!(3, count)
receiver_assert_count ==
    /\ step["receiver"] = "assert_count"
    /\ Goto("receiver", IF result["receiver"].val = FromNat(TestMsgs)
                        THEN "assert_len" ELSE "panicked")
    /\ UNCHANGED <<target_os, net, pc, hdrs, built, frame, os_ret, errno,
                   result, nsys, touched, delivered, token>>

\* assert_eq!(500, msgs[0].msg_len())
receiver_assert_len ==
    /\ step["receiver"] = "assert_len"
    /\ Goto("receiver", IF msg_len(hdrs["receiver"][1]) = SenderBufLen
                        THEN "join" ELSE "panicked")
    /\ UNCHANGED <<target_os, net, pc, hdrs, built, frame, os_ret, errno,
                   result, nsys, touched, delivered, token>>

\* sender.join().unwrap()
receiver_join ==
    /\ step["receiver"] = "join"
    /\ step["sender"] \in {"done", "panicked"}
    /\ Goto("receiver", IF step["sender"] = "done" THEN "done" ELSE "panicked")
    /\ UNCHANGED <<target_os, net, pc, hdrs, built, frame, os_ret, errno,
                   result, nsys, touched, delivered, token>>

InitTest ==
    /\ target_os \in {"linux", "macos"}
    /\ net = [s \in TestThreads |-> Socket(FALSE, s, TestMsgs)]
    /\ InitThreads(TestThreads, "bind")

NextTest ==
    \/ sender_bind
    \/ sender_connect
    \/ sender_msgs
    \/ sender_park
    \/ sender_park_spurious
    \/ sender_sendmmsg
    \/ sendmmsg_syscall("sender")
    \/ sendmmsg_return("sender")
    \/ sender_unwrap
    \/ receiver_bind
    \/ receiver_unpark
    \/ receiver_sleep
    \/ receiver_msgs
    \/ receiver_recvmmsg
    \/ recvmmsg_syscall("receiver")
    \/ recvmmsg_return("receiver")
    \/ receiver_unwrap
    \/ receiver_assert_count
    \/ receiver_assert_len
    \/ receiver_join

SpecTest == InitTest /\ [][NextTest]_vars

----------------------------------------------------------------------------
(* The claims *)

Threads == DOMAIN pc

InCall(t) == frame[t].op # "none"

Returned(t) == pc[t] = "returned"

\* C1: recvmmsg and sendmmsg hand the syscall a message count equal to
\* min(msgvec.len(), max_len()), whatever the length of the array, lengths
\* above 2^32 - 1 included.
C1_CountIsMinOfLenAndMax ==
    \A t \in Threads :
        nsys[t] > 0 => frame[t].len = cmp_min(frame[t].msgvec_len, max_len)

\* C2: a recvmmsg call whose timeout has more whole seconds than i64::MAX
\* aborts before it issues a syscall: it issues none and returns nothing.
C2_UnrepresentableTimeoutAborts ==
    \A t \in Threads :
        (frame[t].op = "recvmmsg" /\ frame[t].timeout.some
            /\ NumLess(I64_MAX, frame[t].timeout.secs))
        => (nsys[t] = 0 /\ result[t].kind = "none")

\* C3: a call whose syscall returned -1 returns the failure that carries the
\* thread's OS error, and a call whose syscall returned r >= 0 returns
\* success with count exactly r.
C3_ResultFollowsReturnCode ==
    \A t \in Threads :
        Returned(t) =>
            /\ os_ret[t] = -1 => (result[t] = ResultErr(errno[t]) /\ errno[t] # "")
            /\ os_ret[t] >= 0 => result[t] = ResultOk(FromNat(os_ret[t]))

\* C3's case: a sendmmsg call has returned after its syscall failed.
C3_Witness ==
    \E t \in Threads :
        Returned(t) /\ frame[t].op = "sendmmsg" /\ os_ret[t] = -1 /\ result[t].kind = "err"

\* C4: a successful call on an array of N envelopes returns a count with
\* 0 <= count <= submitted length <= N, and a syscall result short of the
\* submitted length is returned as a success.
C4_CountWithinSubmitted ==
    \A t \in Threads :
        /\ InCall(t) => NumLeq(frame[t].len, frame[t].msgvec_len)
        /\ result[t].kind = "ok" => NumLeq(result[t].val, frame[t].len)
        /\ (Returned(t) /\ os_ret[t] >= 0 /\ NumLess(FromNat(os_ret[t]), frame[t].len))
            => result[t].kind = "ok"

\* C4's case: a call returned successfully with fewer messages than it submitted.
C4_Witness ==
    \E t \in Threads :
        Returned(t) /\ result[t].kind = "ok" /\ NumLess(result[t].val, frame[t].len)

\* C5: in tests::it_works, whatever the interleaving of the two threads, the
\* receiver's recvmmsg call returns count 3 and its first envelope's msg_len
\* is 500.
C5_TestReceivesAllThree ==
    Returned("receiver") =>
        /\ result["receiver"] = ResultOk(FromNat(TestMsgs))
        /\ msg_len(hdrs["receiver"][1]) = SenderBufLen

\* C6: a call on an array of L envelopes accesses only envelopes at indices
\* below min(L, max_len()), at most max_len() of them, and every envelope it
\* did not access has the fields it was built with.
C6_OnlyLeadingEnvelopesTouched ==
    \A t \in Threads :
        /\ NumLeq(FromNat(touched[t]), cmp_min(frame[t].msgvec_len, max_len))
        /\ NumLeq(FromNat(touched[t]), max_len)
        /\ \A i \in 1..Len(hdrs[t]) :
             i > touched[t] => hdrs[t][i] = MMsgHdr_new(built[t][i].iovec, built[t][i].flags)

\* C6's case: a call on an array longer than max_len() whose syscall
\* accessed some envelopes has returned.
C6_Witness ==
    \E t \in Threads :
        Returned(t) /\ NumLess(max_len, frame[t].msgvec_len) /\ touched[t] > 0

C8_ExactlyOneSyscall ==
    \A t \in Threads :
        /\ nsys[t] <= 1
        /\ Returned(t) => nsys[t] = 1
        /\ result[t].kind # "none" => Returned(t)

\* C8's case: a call whose syscall was interrupted has returned after that
\* one syscall.
C8_Witness ==
    \E t \in Threads :
        Returned(t) /\ os_ret[t] = -1 /\ errno[t] = "EINTR" /\ nsys[t] = 1

\* C9: MMsgHdr::new on a view of n >= 0 buffers and a flag set f gives an
\* envelope with msg_iovlen = n, msg_flags = the bits of f, a null name and
\* control of length 0, and msg_len 0, until a batch call populates it.
C9_NewEnvelopeFields ==
    \A t \in Threads :
        \A i \in 1..Len(hdrs[t]) :
            i > touched[t] =>
                LET h == hdrs[t][i]
                    b == built[t][i]
                IN  /\ h.msg_iovlen = Len(b.iovec)
                    /\ h.msg_iov = b.iovec
                    /\ h.msg_flags = bits(b.flags)
                    /\ (b.flags = AllFlags => h.msg_flags = 1073815650)
                    /\ (b.flags = {} => h.msg_flags = 0)
                    /\ h.msg_name = NULL /\ h.msg_namelen = 0
                    /\ h.msg_control = NULL /\ h.msg_controllen = 0
                    /\ msg_len(h) = 0

\* C9's case: an envelope was built from an empty buffer view with every flag set.
C9_Witness ==
    \E t \in Threads :
        /\ hdrs[t] # <<>>
        /\ built[t][1] = [iovec |-> <<>>, flags |-> AllFlags]
        /\ hdrs[t][1].msg_iovlen = 0

\* C10: on both branches of max_len, the message count handed to the syscall
\* is never greater than the length of the caller's array.
C10_CountNeverExceedsArray ==
    \A t \in Threads : NumLeq(frame[t].len, frame[t].msgvec_len)

\* C10's case: on the non-macOS branch a syscall was issued for an array of
\* 2^32 + 1 envelopes.
C10_Witness ==
    \E t \in Threads :
        /\ target_os = "linux" /\ nsys[t] = 1
        /\ frame[t].msgvec_len = <<0, 1, 0, 1>>
        /\ frame[t].len = FromNat(1)

====
